---- MODULE Spec2Model ----
(***************************************************************************)
(* Model of goja's UTF-16 string values (string_unicode.go): the wide      *)
(* representation unicodeString, the three rune readers, the two-tier      *)
(* valueStringBuilder and the value operations of unicodeString.           *)
(*                                                                         *)
(* A string value is a record [tag, buf]: tag "ascii" with buf the bytes   *)
(* (asciiString), or tag "unicode" with buf the physical []uint16, whose   *)
(* element 1 (Go index 0) is the BOM sentinel.  Go indices are 0-based,    *)
(* TLA+ sequences 1-based: Go s[i] is buf[i + 1].                          *)
(*                                                                         *)
(* Specifications, each over its own part of the state:                    *)
(*   SpecDecode  the three rune readers over one unit sequence             *)
(*   Spec        a builder and the value the caller holds                  *)
(*   SpecRunes   WriteRune on a fresh builder                              *)
(*   SpecBuild   one builder's calls, with the pieces written, the grow    *)
(*               calls made and the value String() returned                *)
(*   SpecOps     single operations on values of the canonical shape        *)
(*   SpecWide    concat and ToBoolean on any wide buffer                   *)
(*   SpecHash    hash calls on one accumulator                             *)
(*   SpecLower   toLower from the lowercaser's result                      *)
(***************************************************************************)
EXTENDS Integers, Sequences, FiniteSets, TLC

\* ------------------------------------------------------------------ bounds
\* Longest code-unit sequence handed to the rune readers.
MaxUnits == 3
\* ReadRune calls made after a reader first reported end of input.
MaxEOF == 2
\* Longest logical content of the builder.
MaxLen == 2
\* Longest logical content of the value the caller holds.
MaxVal == 2
\* Most code points written in a round trip.
MaxRunes == 3
\* Longest logical content of the value a single operation is called on, and of
\* its string operand.
MaxRecv == 3
MaxArg == 2
\* How far below 0 and beyond the length the integer argument of a search ranges.
OutOfRange == 2

\* --------------------------------------------------------------- constants
\* unistring.BOM, the sentinel unit (0xFEFF).
BOM == 65279
\* utf8.RuneSelf (0x80).
RuneSelf == 128
\* unicode/utf16: surr1 (0xD800), surr2 (0xDC00), surr3 (0xE000), surrSelf (0x10000).
surr1 == 55296
surr2 == 56320
surr3 == 57344
surrSelf == 65536
\* unicode.MaxRune (0x10FFFF) and unicode.ReplacementChar (0xFFFD).
maxRune == 1114111
replacementChar == 65533

\* ----------------------------------------------------------------- helpers
Min(a, b) == IF a < b THEN a ELSE b

Max(a, b) == IF a > b THEN a ELSE b

\* Go's s[lo:hi] on a sequence (0-based, half open).
Slice(s, lo, hi) == SubSeq(s, lo + 1, hi)

\* All sequences over S of length lo..hi.
SeqsOf(S, lo, hi) == UNION {[1..n -> S] : n \in lo..hi}

isUTF16FirstSurrogate(c) == c >= 55296 /\ c <= 56319

isUTF16SecondSurrogate(c) == c >= 56320 /\ c <= 57343

\* utf16.DecodeRune.
DecodeRune(r1, r2) ==
  IF surr1 <= r1 /\ r1 < surr2 /\ surr2 <= r2 /\ r2 < surr3
  THEN (r1 - surr1) * 1024 + (r2 - surr2) + surrSelf
  ELSE replacementChar

\* utf16.EncodeRune: the pair <<first, second>>.
EncodeRune(r) ==
  IF r < surrSelf \/ r > maxRune
  THEN <<replacementChar, replacementChar>>
  ELSE <<surr1 + (((r - surrSelf) \div 1024) % 1024), surr2 + ((r - surrSelf) % 1024)>>

\* The UTF-16 encoding of a code point; a surrogate code point is its own unit.
Utf16Of(r) == IF r < surrSelf THEN <<r>> ELSE EncodeRune(r)

\* ------------------------------------------------------------------- state
VARIABLES
  rs,        \* the s field shared by the readers: the units after the start offset
  rawRd,     \* utf16RuneReader: [pos, out]
  lenRd,     \* lenientUtf16Decoder over its own utf16RuneReader: [pos, prev, prevSet, out]
  strictRd,  \* unicodeRuneReader: [pos, out]
  builder,   \* the valueStringBuilder
  val,       \* a string value held by the caller
  op,        \* history: the name of the last operation
  promoted,  \* history: ascii() was false after some write to this builder
  written,   \* history: the code points passed to WriteRune on this builder
  recv,      \* the wide value a value operation is called on
  arg,       \* the string operand of the call
  ret,       \* the last call on recv: its name, integer arguments and result
  acc,       \* the maphash.Hash accumulator: [seed, buf], buf the bytes written since Reset
  hashed,    \* history: the value and the result of each hash call made so far
  pieces,    \* history: the code units of the pieces written to the builder, in order
  call,      \* history: the last builder call, its arguments and the grow calls it made
  held       \* the value a String() call returned, and whether it shares the builder's array

decVars == <<rs, rawRd, lenRd, strictRd>>

valVars == <<builder, val, op, promoted, written>>

opsVars == <<recv, arg, ret>>

hashVars == <<acc, hashed>>

buildVars == <<pieces, call, held>>

vars ==
  <<rs, rawRd, lenRd, strictRd, builder, val, op, promoted, written, recv, arg, ret,
    acc, hashed, pieces, call, held>>

\* ------------------------------------------------------------ rune readers
\* A ReadRune result (r, size, err); err is "nil", "EOF" or "InvalidRune".
Ret(r, size, err) == [r |-> r, size |-> size, err |-> err]

\* utf16RuneReader.ReadRune on reader {s, pos}: the result and the new pos.
utf16ReadRune(s, pos) ==
  IF pos < Len(s)
  THEN [ret |-> Ret(s[pos + 1], 1, "nil"), pos |-> pos + 1]
  ELSE [ret |-> Ret(0, 0, "EOF"), pos |-> pos]

\* Mutant of lenientFirst: the lookahead flag is not cleared when the pending
\* unit is taken.
lenientFirstKeepsPending(s, d) ==
  IF d.prevSet
  THEN [ret |-> Ret(d.prev, 1, "nil"), pos |-> d.pos, prevSet |-> TRUE]
  ELSE [ret |-> utf16ReadRune(s, d.pos).ret, pos |-> utf16ReadRune(s, d.pos).pos,
        prevSet |-> d.prevSet]

\* lenientUtf16Decoder.ReadRune, lines 65-74: the first unit, from the lookahead
\* when it is set, else from the wrapped reader.  d is [pos, prev, prevSet]
\* (pos: the wrapped utf16RuneReader's cursor).
lenientFirst(s, d) ==
  IF d.prevSet
  THEN [ret |-> Ret(d.prev, 1, "nil"), pos |-> d.pos, prevSet |-> FALSE]
  ELSE [ret |-> utf16ReadRune(s, d.pos).ret, pos |-> utf16ReadRune(s, d.pos).pos,
        prevSet |-> d.prevSet]

\* Mutant of lenientStash: the lookahead flag is not set, so the unit is lost.
lenientStashForgets(first, second, d) ==
  [ret |-> first.ret, d |-> [pos |-> second.pos, prev |-> second.ret.r, prevSet |-> FALSE]]

\* lines 86-89: the unit after a leading surrogate is no trailing surrogate; it is
\* kept in prev for the next call.
lenientStash(first, second, d) ==
  [ret |-> first.ret, d |-> [pos |-> second.pos, prev |-> second.ret.r, prevSet |-> TRUE]]

\* lines 76-82: the wrapped reader has nothing after a leading surrogate (io.EOF
\* is the only error utf16RuneReader returns, and it is not passed on).
lenientAtEnd(first, second, d) ==
  [ret |-> first.ret, d |-> [pos |-> second.pos, prev |-> d.prev, prevSet |-> first.prevSet]]

\* lenientUtf16Decoder.ReadRune: the result and the new decoder state.
lenientReadRune(s, d) ==
  LET first == lenientFirst(s, d)
      st1 == [pos |-> first.pos, prev |-> d.prev, prevSet |-> first.prevSet]
  IN IF first.ret.err # "nil"
     THEN [ret |-> first.ret, d |-> st1]
     ELSE IF isUTF16FirstSurrogate(first.ret.r)
          THEN LET second == utf16ReadRune(s, first.pos)
               IN IF second.ret.err # "nil"
                  THEN lenientAtEnd(first, second, d)
                  ELSE IF isUTF16SecondSurrogate(second.ret.r)
                       THEN [ret |-> Ret(DecodeRune(first.ret.r, second.ret.r),
                                         first.ret.size + 1, "nil"),
                             d |-> [st1 EXCEPT !.pos = second.pos]]
                       ELSE lenientStash(first, second, d)
          ELSE [ret |-> first.ret, d |-> st1]

\* Mutant of unicodeAfterFirst: the unit that fails to pair is consumed with
\* the leading surrogate.
unicodeAfterFirstSkips(s, r, pos) ==
  IF pos < Len(s)
  THEN IF isUTF16SecondSurrogate(s[pos + 1])
       THEN [ret |-> Ret(DecodeRune(r, s[pos + 1]), 2, "nil"), pos |-> pos + 1]
       ELSE [ret |-> Ret(r, 1, "InvalidRune"), pos |-> pos + 1]
  ELSE [ret |-> Ret(r, 1, "InvalidRune"), pos |-> pos]

\* unicodeRuneReader.ReadRune, lines 100-112: r, already read at pos - 1, is a
\* leading surrogate; pos is the cursor after it.
unicodeAfterFirst(s, r, pos) ==
  IF pos < Len(s)
  THEN IF isUTF16SecondSurrogate(s[pos + 1])
       THEN [ret |-> Ret(DecodeRune(r, s[pos + 1]), 2, "nil"), pos |-> pos + 1]
       ELSE [ret |-> Ret(r, 1, "InvalidRune"), pos |-> pos]
  ELSE [ret |-> Ret(r, 1, "InvalidRune"), pos |-> pos]

\* Mutant of unicodeNotFirst: a trailing surrogate on its own is let through.
unicodeNotFirstAccepts(r, pos) ==
  [ret |-> Ret(r, 1, "nil"), pos |-> pos]

\* lines 113-115: r is no leading surrogate.
unicodeNotFirst(r, pos) ==
  IF isUTF16SecondSurrogate(r)
  THEN [ret |-> Ret(r, 1, "InvalidRune"), pos |-> pos]
  ELSE [ret |-> Ret(r, 1, "nil"), pos |-> pos]

\* unicodeRuneReader.ReadRune on reader {s, pos}: the result and the new pos.
unicodeReadRune(s, pos) ==
  IF pos < Len(s)
  THEN IF isUTF16FirstSurrogate(s[pos + 1])
       THEN unicodeAfterFirst(s, s[pos + 1], pos + 1)
       ELSE unicodeNotFirst(s[pos + 1], pos + 1)
  ELSE [ret |-> Ret(0, 0, "EOF"), pos |-> pos]

\* The builder and the value register while the readers run: unused.
ValIdle ==
  /\ builder = [ascii |-> <<>>, buf |-> <<>>, cap |-> 0, unicode |-> FALSE]
  /\ val = [tag |-> "ascii", buf |-> <<>>]
  /\ op = "none"
  /\ promoted = FALSE
  /\ written = <<>>

\* The readers while the builder and the value operations run: unused.
DecIdle ==
  /\ rs = <<>>
  /\ rawRd = [pos |-> 0, out |-> <<>>]
  /\ lenRd = [pos |-> 0, prev |-> 0, prevSet |-> FALSE, out |-> <<>>]
  /\ strictRd = [pos |-> 0, out |-> <<>>]

\* The operands of the single value operations while the other parts run: unused.
OpsIdle ==
  /\ recv = [tag |-> "unicode", buf |-> <<BOM>>]
  /\ arg = [tag |-> "ascii", buf |-> <<>>]
  /\ ret = [op |-> "none"]

\* The hash accumulator while nothing is hashed: unused.
HashIdle ==
  /\ acc = [seed |-> 0, buf |-> <<>>]
  /\ hashed = <<>>

\* The histories of the builder calls where they are not kept: unused.
BuildIdle ==
  /\ pieces = <<>>
  /\ call = [op |-> "none"]
  /\ held = [set |-> FALSE]

\* Code units the readers are run over: 'A', the first and last leading
\* surrogate, the first trailing surrogate and the first unit above them.
DecUnits == {65, 55296, 56319, 56320, 57344}

\* Number of end-of-input results in a log.
RECURSIVE EOFs(_)
EOFs(out) ==
  IF out = <<>> THEN 0
  ELSE (IF out[Len(out)].err = "EOF" THEN 1 ELSE 0) + EOFs(SubSeq(out, 1, Len(out) - 1))

\* unicodeString.reader / utf16Reader: every reader starts at pos 0 of s[start+1:].
DecodeInit ==
  /\ \E us \in {<<BOM>> \o u : u \in SeqsOf(DecUnits, 0, MaxUnits)} :
       \E start \in 0..(Len(us) - 1) : rs = Slice(us, start + 1, Len(us))
  /\ rawRd = [pos |-> 0, out |-> <<>>]
  /\ lenRd = [pos |-> 0, prev |-> 0, prevSet |-> FALSE, out |-> <<>>]
  /\ strictRd = [pos |-> 0, out |-> <<>>]
  /\ ValIdle
  /\ OpsIdle
  /\ HashIdle
  /\ BuildIdle

\* One call of utf16RuneReader.ReadRune; the log entry keeps the cursor at the call.
RawRead ==
  /\ EOFs(rawRd.out) < MaxEOF
  /\ LET c == utf16ReadRune(rs, rawRd.pos)
     IN rawRd' = [pos |-> c.pos,
                  out |-> Append(rawRd.out, [r |-> c.ret.r, size |-> c.ret.size,
                                             err |-> c.ret.err, at |-> rawRd.pos])]
  /\ UNCHANGED <<rs, lenRd, strictRd, valVars, opsVars, hashVars, buildVars>>

\* One call of lenientUtf16Decoder.ReadRune.
LenientRead ==
  /\ EOFs(lenRd.out) < MaxEOF
  /\ LET c == lenientReadRune(rs, [pos |-> lenRd.pos, prev |-> lenRd.prev,
                                   prevSet |-> lenRd.prevSet])
     IN lenRd' = [pos |-> c.d.pos, prev |-> c.d.prev, prevSet |-> c.d.prevSet,
                  out |-> Append(lenRd.out, [r |-> c.ret.r, size |-> c.ret.size,
                                             err |-> c.ret.err,
                                             at |-> lenRd.pos - (IF lenRd.prevSet THEN 1 ELSE 0)])]
  /\ UNCHANGED <<rs, rawRd, strictRd, valVars, opsVars, hashVars, buildVars>>

\* One call of unicodeRuneReader.ReadRune.
StrictRead ==
  /\ EOFs(strictRd.out) < MaxEOF
  /\ LET c == unicodeReadRune(rs, strictRd.pos)
     IN strictRd' = [pos |-> c.pos,
                     out |-> Append(strictRd.out, [r |-> c.ret.r, size |-> c.ret.size,
                                                   err |-> c.ret.err, at |-> strictRd.pos])]
  /\ UNCHANGED <<rs, rawRd, lenRd, valVars, opsVars, hashVars, buildVars>>

DecodeNext == RawRead \/ LenientRead \/ StrictRead

SpecDecode == DecodeInit /\ [][DecodeNext]_vars

\* ------------------------------------------------------------ string values
\* asciiString(bytes) and unicodeString(buf).
Ascii(bytes) == [tag |-> "ascii", buf |-> bytes]

Unicode(buf) == [tag |-> "unicode", buf |-> buf]

\* stringEmpty, the canonical empty asciiString.
stringEmpty == Ascii(<<>>)

\* Go's conversions uint16(x) and byte(x) of a non-negative integer.
Uint16(x) == x % 65536

Byte(x) == x % 256

\* valueString.length: unicodeString.length is len(s) - 1, asciiString's is len(s).
length(v) == IF v.tag = "unicode" THEN Len(v.buf) - 1 ELSE Len(v.buf)

\* unicodeString.charAt.
charAt(s, idx) == s.buf[idx + 2]

\* The logical code units of a value of either representation.
UnitsOf(v) == IF v.tag = "unicode" THEN Tail(v.buf) ELSE v.buf

\* Mutant of equals: the lengths are not compared, only the common prefix is.
equalsPrefix(s, other) ==
  \A i \in 1..Min(Len(s.buf), Len(other.buf)) : s.buf[i] = other.buf[i]

\* unicodeString.equals, on the physical buffers.
equals(s, other) ==
  IF Len(s.buf) # Len(other.buf)
  THEN FALSE
  ELSE \A i \in 1..Len(s.buf) : s.buf[i] = other.buf[i]

\* unicodeString.SameAs with a string operand.
SameAs(s, other) == IF other.tag = "unicode" THEN equals(s, other) ELSE FALSE

\* unicodeString.Equals with a string operand (no *Object to unwrap).
Equals(s, other) == IF SameAs(s, other) THEN TRUE ELSE FALSE

\* unicodeString.StrictEquals.
StrictEquals(s, other) == SameAs(s, other)

\* Mutant of concat: the sentinel of a wide operand is copied with its content.
concatKeepsSentinel(s, other) ==
  IF other.tag = "unicode"
  THEN Unicode(s.buf \o other.buf)
  ELSE Unicode(s.buf \o [i \in 1..Len(other.buf) |-> Uint16(other.buf[i])])

\* unicodeString.concat.
concat(s, other) ==
  IF other.tag = "unicode"
  THEN Unicode(s.buf \o Slice(other.buf, 1, Len(other.buf)))
  ELSE Unicode(s.buf \o [i \in 1..Len(other.buf) |-> Uint16(other.buf[i])])

\* Mutant of substring: the range is taken from the physical buffer without
\* stepping over the sentinel.
substringNoSentinel(s, start, end) ==
  LET ss == Slice(s.buf, start, end)
  IN IF \E i \in 1..Len(ss) : ss[i] >= RuneSelf
     THEN Unicode(<<BOM>> \o ss)
     ELSE Ascii([i \in 1..Len(ss) |-> Byte(ss[i])])

\* Mutant of substring: the range is narrowed to bytes without looking for a
\* unit from 0x80 on.
substringAlwaysNarrows(s, start, end) ==
  Ascii([i \in 1..(end - start) |-> Byte(s.buf[start + 1 + i])])

\* unicodeString.substring.
substring(s, start, end) ==
  LET ss == Slice(s.buf, start + 1, end + 1)
  IN IF \E i \in 1..Len(ss) : ss[i] >= RuneSelf
     THEN Unicode(<<BOM>> \o ss)
     ELSE Ascii([i \in 1..Len(ss) |-> Byte(ss[i])])

\* index and lastIndex, lines 443-454 and 473-484: the needle as code units.
needleUnits(substr) ==
  IF substr.tag = "unicode"
  THEN Slice(substr.buf, 1, Len(substr.buf))
  ELSE [i \in 1..Len(substr.buf) |-> Uint16(substr.buf[i])]

\* The inner loop of index and lastIndex from needle position i on: "match",
\* "nomatch", or "panic" when s1[start+i] is indexed out of range.
RECURSIVE matchFrom(_, _, _, _)
matchFrom(s1, ss, start, i) ==
  IF i >= Len(ss) THEN "match"
  ELSE IF start + i < 0 \/ start + i >= Len(s1) THEN "panic"
  ELSE IF s1[start + i + 1] # ss[i + 1] THEN "nomatch"
  ELSE matchFrom(s1, ss, start, i + 1)

\* What index and lastIndex return: an int, or a run-time panic.
Returned(n) == [panic |-> FALSE, val |-> n]

Panicked == [panic |-> TRUE, val |-> 0]

\* The loop of index, lines 458-469.
RECURSIVE indexLoop(_, _, _, _)
indexLoop(s1, ss, start, end) ==
  IF start <= end
  THEN LET m == matchFrom(s1, ss, start, 0)
       IN IF m = "match" THEN Returned(start)
          ELSE IF m = "panic" THEN Panicked
          ELSE indexLoop(s1, ss, start + 1, end)
  ELSE Returned(-1)

\* unicodeString.index.
index(s, substr, start) ==
  LET ss == needleUnits(substr)
      s1 == Slice(s.buf, 1, Len(s.buf))
  IN indexLoop(s1, ss, start, Len(s1) - Len(ss))

\* The loop of lastIndex, lines 491-502.
RECURSIVE lastIndexLoop(_, _, _)
lastIndexLoop(s1, ss, start) ==
  IF start >= 0
  THEN LET m == matchFrom(s1, ss, start, 0)
       IN IF m = "match" THEN Returned(start)
          ELSE IF m = "panic" THEN Panicked
          ELSE lastIndexLoop(s1, ss, start - 1)
  ELSE Returned(-1)

\* Mutant of lastIndexStart: the start is not clamped to the last position at
\* which the needle fits.
lastIndexStartUnclamped(s1, ss, start) == start

\* lastIndex, lines 487-489: the clamped start.
lastIndexStart(s1, ss, start) ==
  IF start > Len(s1) - Len(ss) THEN Len(s1) - Len(ss) ELSE start

\* unicodeString.lastIndex.
lastIndex(s, substr, start) ==
  LET ss == needleUnits(substr)
      s1 == Slice(s.buf, 1, Len(s.buf))
  IN lastIndexLoop(s1, ss, lastIndexStart(s1, ss, start))

\* unistring.NewFromRunes(r).AsUtf16() for r with a code point >= 0x80: the
\* sentinel followed by the UTF-16 encoding of r.
RECURSIVE utf16Encode(_)
utf16Encode(r) ==
  IF r = <<>> THEN <<>>
  ELSE (IF r[1] <= 65535 THEN <<Uint16(r[1])>> ELSE EncodeRune(r[1])) \o utf16Encode(Tail(r))

unicodeStringFromRunes(r) == Unicode(<<BOM>> \o utf16Encode(r))

\* The loop of toLower, lines 514-522, from i on: the corrected runes and the
\* ascii flag.
\* Mutant of finalSigmaAt: the code point before U+0345 is not looked at.
finalSigmaAtAnyBefore(r, i) == r[i + 1] = 837 /\ r[i + 2] = 962

\* toLower, line 515: U+0345 at Go index i, not preceded by alpha (U+03B1), is
\* followed by the final sigma U+03C2.
finalSigmaAt(r, i) == (i = 0 \/ r[i] # 945) /\ r[i + 1] = 837 /\ r[i + 2] = 962

RECURSIVE toLowerLoop(_, _, _)
toLowerLoop(r, i, ascii) ==
  IF i < Len(r) - 1
  THEN LET hit == finalSigmaAt(r, i)
           i1 == IF hit THEN i + 1 ELSE i
           r1 == IF hit THEN [r EXCEPT ![i1 + 1] = 963] ELSE r
       IN toLowerLoop(r1, i1 + 1, IF r1[i1 + 1] >= RuneSelf THEN FALSE ELSE ascii)
  ELSE [r |-> r, ascii |-> ascii]

\* Mutant of toLowerResult: the last code point is not looked at.
toLowerResultSkipsLast(l) ==
  IF l.ascii THEN Ascii(l.r) ELSE unicodeStringFromRunes(l.r)

\* toLower, lines 523-529: the value built from the corrected runes.
toLowerResult(l) ==
  IF (IF l.ascii THEN l.r[Len(l.r)] < RuneSelf ELSE FALSE)
  THEN Ascii(l.r)
  ELSE unicodeStringFromRunes(l.r)

\* unicodeString.toLower from r, the non-empty code-point sequence the default
\* lowercaser returned for s.String().
toLower(r) == toLowerResult(toLowerLoop(r, 0, TRUE))

\* unicodeString.ToBoolean: len(s) > 0, on the physical buffer.
ToBoolean(s) == Len(s.buf) > 0

\* utf16.Decode: pairs are combined, a surrogate outside a pair becomes U+FFFD.
RECURSIVE utf16Decode(_)
utf16Decode(u) ==
  IF u = <<>> THEN <<>>
  ELSE IF Len(u) >= 2 /\ isUTF16FirstSurrogate(u[1]) /\ isUTF16SecondSurrogate(u[2])
       THEN <<DecodeRune(u[1], u[2])>> \o utf16Decode(SubSeq(u, 3, Len(u)))
       ELSE <<IF u[1] >= surr1 /\ u[1] < surr3 THEN replacementChar ELSE u[1]>>
              \o utf16Decode(Tail(u))

\* The UTF-8 bytes of one code point.
utf8Bytes(r) ==
  IF r < 128 THEN <<r>>
  ELSE IF r < 2048 THEN <<192 + (r \div 64), 128 + (r % 64)>>
  ELSE IF r < 65536
       THEN <<224 + (r \div 4096), 128 + ((r \div 64) % 64), 128 + (r % 64)>>
       ELSE <<240 + (r \div 262144), 128 + ((r \div 4096) % 64),
              128 + ((r \div 64) % 64), 128 + (r % 64)>>

RECURSIVE utf8Encode(_)
utf8Encode(rr) == IF rr = <<>> THEN <<>> ELSE utf8Bytes(rr[1]) \o utf8Encode(Tail(rr))

\* string(unistring.FromUtf16(s)), the bytes handed to the accumulator: the
\* well-formed UTF-8 rendering of the logical content of s.
FromUtf16(s) == utf8Encode(utf16Decode(Slice(s.buf, 1, Len(s.buf))))

\* maphash.Hash is [seed, buf]: the seed it was made with and the bytes written
\* since the last Reset.  WriteString appends, Reset discards.
hash_WriteString(h, bytes) == [h EXCEPT !.buf = h.buf \o bytes]

Reset(h) == [h EXCEPT !.buf = <<>>]

\* maphash.Hash.Sum64: a function of the seed and of the bytes written since the
\* last Reset (here a polynomial of the bytes, reduced modulo a prime below 2^16).
RECURSIVE sumBytes(_, _)
sumBytes(x, bytes) ==
  IF bytes = <<>> THEN x ELSE sumBytes((x * 31 + bytes[1]) % 65521, Tail(bytes))

Sum64(h) == sumBytes(h.seed, h.buf)

\* Mutant of hash: the accumulator is not reset before returning.
hashNoReset(s, h) ==
  [out |-> Sum64(hash_WriteString(h, FromUtf16(s))), acc |-> hash_WriteString(h, FromUtf16(s))]

\* unicodeString.hash: the result and the accumulator it leaves behind.
hash(s, h) ==
  [out |-> Sum64(hash_WriteString(h, FromUtf16(s))),
   acc |-> Reset(hash_WriteString(h, FromUtf16(s)))]

\* ------------------------------------------------------------------ builder
\* A valueStringBuilder is [ascii, buf, cap, unicode]: asciiBuilder's content,
\* and unicodeBuilder's buf (with its capacity) and unicode flag.  The capacity
\* of asciiBuilder (a strings.Builder) is not part of the model.
FreshBuilder == [ascii |-> <<>>, buf |-> <<>>, cap |-> 0, unicode |-> FALSE]

\* Mutant of growCap: room for the request and no more, no doubling.
growCapExact(b, n) == Len(b.buf) + n

\* grow, line 124: the capacity of the buffer that is allocated.
growCap(b, n) == 2 * b.cap + n

\* grow, lines 123-127: the builder after the call; the new buffer has the old
\* length and the old units copied into it.
growBuf(b, n) ==
  IF b.cap - Len(b.buf) < n
  THEN [b EXCEPT !.cap = growCap(b, n)]
  ELSE b

\* unicodeStringBuilder.grow.  A builder record that carries the history field
\* `grown` gets the call appended to it: the request, the buffer and capacity
\* found and the buffer and capacity left.
grow(b, n) ==
  IF "grown" \in DOMAIN b
  THEN [growBuf(b, n) EXCEPT !.grown =
          Append(b.grown, [n |-> n, buf |-> b.buf, cap |-> b.cap,
                           newBuf |-> growBuf(b, n).buf, newCap |-> growBuf(b, n).cap])]
  ELSE growBuf(b, n)

\* Mutant of appendBuf: within the capacity the first new unit is stored over
\* the last old one.
appendBufOverLast(b, xs) ==
  [b EXCEPT !.buf = IF Len(b.buf) + Len(xs) > b.cap \/ Len(b.buf) = 0 \/ Len(xs) = 0
                    THEN b.buf \o xs
                    ELSE SubSeq(b.buf, 1, Len(b.buf) - 1) \o xs,
            !.cap = IF Len(b.buf) + Len(xs) > b.cap
                    THEN Max(2 * b.cap, Len(b.buf) + Len(xs))
                    ELSE b.cap]

\* append(b.buf, xs...): Go reallocates when the capacity is exceeded (to at least
\* the doubled capacity; the allocator's size-class rounding is left out).
appendBuf(b, xs) ==
  [b EXCEPT !.buf = b.buf \o xs,
            !.cap = IF Len(b.buf) + Len(xs) > b.cap
                    THEN Max(2 * b.cap, Len(b.buf) + Len(xs))
                    ELSE b.cap]

\* unicodeStringBuilder.Grow.
unicodeStringBuilder_Grow(b, n) == grow(b, n + 1)

\* unicodeStringBuilder.ensureStarted.
ensureStarted(b, initialSize) ==
  LET g == grow(b, Len(b.buf) + initialSize + 1)
  IN IF Len(g.buf) = 0 THEN appendBuf(g, <<BOM>>) ELSE g

\* unicodeStringBuilder.WriteString.
unicodeStringBuilder_WriteString(b, s) ==
  LET e == ensureStarted(b, length(s))
  IN IF s.tag = "unicode"
     THEN [appendBuf(e, Slice(s.buf, 1, Len(s.buf))) EXCEPT !.unicode = TRUE]
     ELSE appendBuf(e, [i \in 1..Len(s.buf) |-> Uint16(s.buf[i])])

\* unicodeStringBuilder.String.
unicodeStringBuilder_String(b) ==
  IF b.unicode
  THEN Unicode(b.buf)
  ELSE IF Len(b.buf) = 0
       THEN stringEmpty
       ELSE Ascii([i \in 1..(Len(b.buf) - 1) |-> Byte(b.buf[i + 1])])

\* Mutant of unicodeStringBuilder_WriteRune: a code point above 0xFFFF is
\* truncated to one unit instead of being encoded as a pair.
unicodeStringBuilder_WriteRuneTruncates(b, r) ==
  [appendBuf(ensureStarted(b, 1), <<Uint16(r)>>) EXCEPT !.unicode = TRUE]

\* unicodeStringBuilder.WriteRune.
unicodeStringBuilder_WriteRune(b, r) ==
  IF r <= 65535
  THEN LET a == appendBuf(ensureStarted(b, 1), <<Uint16(r)>>)
       IN IF ~a.unicode /\ r >= RuneSelf THEN [a EXCEPT !.unicode = TRUE] ELSE a
  ELSE [appendBuf(ensureStarted(b, 2),
                  <<Uint16(EncodeRune(r)[1]), Uint16(EncodeRune(r)[2])>>)
          EXCEPT !.unicode = TRUE]

\* unicodeStringBuilder.writeASCIIString (bytes are ASCII: one code point each).
writeASCIIString(b, bytes) ==
  appendBuf(ensureStarted(b, Len(bytes)), [i \in 1..Len(bytes) |-> Uint16(bytes[i])])

\* valueStringBuilder.ascii.
ascii(b) == Len(b.buf) = 0

\* Mutant of switchToUnicode: the compact buffer is discarded without being
\* transcoded.
switchToUnicodeDropsAscii(b, extraLen) ==
  IF ascii(b)
  THEN [ensureStarted(b, Len(b.ascii) + extraLen) EXCEPT !.ascii = <<>>]
  ELSE b

\* valueStringBuilder.switchToUnicode.
switchToUnicode(b, extraLen) ==
  IF ascii(b)
  THEN [writeASCIIString(ensureStarted(b, Len(b.ascii) + extraLen), b.ascii)
          EXCEPT !.ascii = <<>>]
  ELSE b

\* valueStringBuilder.WriteString.
valueStringBuilder_WriteString(b, s) ==
  IF s.tag = "ascii"
  THEN IF ascii(b)
       THEN [b EXCEPT !.ascii = b.ascii \o s.buf]
       ELSE writeASCIIString(b, s.buf)
  ELSE unicodeStringBuilder_WriteString(switchToUnicode(b, length(s)), s)

\* valueStringBuilder.WriteASCII.
WriteASCII(b, s) ==
  IF ascii(b)
  THEN [b EXCEPT !.ascii = b.ascii \o s]
  ELSE writeASCIIString(b, s)

\* valueStringBuilder.WriteRune.
valueStringBuilder_WriteRune(b, r) ==
  IF r < RuneSelf
  THEN IF ascii(b)
       THEN [b EXCEPT !.ascii = Append(b.ascii, Byte(r))]
       ELSE unicodeStringBuilder_WriteRune(b, r)
  ELSE unicodeStringBuilder_WriteRune(switchToUnicode(b, IF r <= 65535 THEN 1 ELSE 2), r)

\* valueStringBuilder.String.
valueStringBuilder_String(b) ==
  IF ascii(b) THEN Ascii(b.ascii) ELSE unicodeStringBuilder_String(b)

\* valueStringBuilder.Grow.
valueStringBuilder_Grow(b, n) ==
  IF ascii(b) THEN b ELSE unicodeStringBuilder_Grow(b, n)

\* Mutant of writeSubstringWide: the unicode flag is not set.
writeSubstringWideNoFlag(b, us, start, end) ==
  appendBuf(b, Slice(us.buf, start + 1, end + 1))

\* WriteSubstring, lines 287-288: the wide slice is appended.
writeSubstringWide(b, us, start, end) ==
  [appendBuf(b, Slice(us.buf, start + 1, end + 1)) EXCEPT !.unicode = TRUE]

\* Mutant of rangeIsWide: only the first unit of the range is looked at.
rangeIsWideAtStart(us, start, end) ==
  start < end /\ charAt(us, start) >= RuneSelf

\* WriteSubstring, lines 270-276: uc, whether a unit of us in [start, end) is
\* 0x80 or above.
rangeIsWide(us, start, end) ==
  \E i \in start..(end - 1) : charAt(us, i) >= RuneSelf

\* valueStringBuilder.WriteSubstring.
WriteSubstring(b, source, start, end) ==
  IF source.tag = "ascii"
  THEN IF ascii(b)
       THEN [b EXCEPT !.ascii = b.ascii \o Slice(source.buf, start, end)]
       ELSE writeASCIIString(b, Slice(source.buf, start, end))
  ELSE IF ascii(b)
       THEN IF rangeIsWide(source, start, end)
            THEN writeSubstringWide(switchToUnicode(b, end - start + 1), source, start, end)
            ELSE [b EXCEPT !.ascii = b.ascii \o [i \in 1..(end - start) |->
                                                  Byte(charAt(source, start + i - 1))]]
       ELSE writeSubstringWide(b, source, start, end)

\* ---------------------------------------------- builder and value operations
\* Values handed to the operations from outside: "" and "a" (compact), and the
\* wide values of U+03C2 and of 'a' U+03C2.  Each
\* satisfies the representation invariant.
SeedValues ==
  {Ascii(<<>>), Ascii(<<97>>), Unicode(<<BOM, 962>>), Unicode(<<BOM, 97, 962>>)}

\* Byte strings passed to WriteASCII.
AsciiSeeds == {<<>>, <<97>>}

\* Code points passed to WriteRune: 'a', U+03C2 and U+10000.
Runes == {97, 962, 65536}

\* Results of the default lowercaser (golang.org/x/text/cases, outside the
\* repository), whatever the value lowercased: any non-empty sequence over 'a'
\* and U+03C2.
LowerRunes == {97, 962}

\* Capacity hints passed to Grow.
GrowHints == {0, 2}

\* Operands: a seed or the value the caller holds.
Operands == SeedValues \cup {val}

\* The history of a step on the current builder.
Track(name) ==
  /\ op' = name
  /\ promoted' = (promoted \/ ~ascii(builder'))

\* The logical length of the builder's content.
builderLen(bb) == IF ascii(bb) THEN Len(bb.ascii) ELSE Len(bb.buf) - 1

\* var b valueStringBuilder: a fresh builder replaces the current one.
NewBuilder ==
  /\ builder' = FreshBuilder
  /\ op' = "NewBuilder"
  /\ promoted' = FALSE
  /\ written' = <<>>
  /\ UNCHANGED <<val, decVars, opsVars, hashVars, buildVars>>

DoWriteString ==
  \E s \in Operands :
    /\ builderLen(builder) + length(s) <= MaxLen
    /\ builder' = valueStringBuilder_WriteString(builder, s)
    /\ Track("WriteString")
    /\ UNCHANGED <<val, written, decVars, opsVars, hashVars, buildVars>>

DoWriteASCII ==
  \E s \in AsciiSeeds :
    /\ builderLen(builder) + Len(s) <= MaxLen
    /\ builder' = WriteASCII(builder, s)
    /\ Track("WriteASCII")
    /\ UNCHANGED <<val, written, decVars, opsVars, hashVars, buildVars>>

DoWriteRune ==
  \E r \in Runes :
    /\ builderLen(builder) + Len(Utf16Of(r)) <= MaxLen
    /\ builder' = valueStringBuilder_WriteRune(builder, r)
    /\ Track("WriteRune")
    /\ UNCHANGED <<val, written, decVars, opsVars, hashVars, buildVars>>

DoWriteSubstring ==
  \E source \in Operands :
    \E start \in 0..length(source) :
      \E end \in start..length(source) :
        /\ builderLen(builder) + (end - start) <= MaxLen
        /\ builder' = WriteSubstring(builder, source, start, end)
        /\ Track("WriteSubstring")
        /\ UNCHANGED <<val, written, decVars, opsVars, hashVars, buildVars>>

DoGrow ==
  \E n \in GrowHints :
    /\ builder' = valueStringBuilder_Grow(builder, n)
    /\ Track("Grow")
    /\ UNCHANGED <<val, written, decVars, opsVars, hashVars, buildVars>>

\* String(): the caller keeps the returned value.
DoString ==
  /\ builderLen(builder) <= MaxVal
  /\ val' = valueStringBuilder_String(builder)
  /\ op' = "String"
  /\ UNCHANGED <<builder, promoted, written, decVars, opsVars, hashVars, buildVars>>

DoConcat ==
  \E other \in Operands :
    /\ val.tag = "unicode"
    /\ length(val) + length(other) <= MaxVal
    /\ val' = concat(val, other)
    /\ op' = "concat"
    /\ UNCHANGED <<builder, promoted, written, decVars, opsVars, hashVars, buildVars>>

DoSubstring ==
  \E start \in 0..length(val) :
    \E end \in start..length(val) :
      /\ val.tag = "unicode"
      /\ val' = substring(val, start, end)
      /\ op' = "substring"
      /\ UNCHANGED <<builder, promoted, written, decVars, opsVars, hashVars, buildVars>>

DoToLower ==
  \E r \in SeqsOf(LowerRunes, 1, MaxVal) :
    /\ val.tag = "unicode"
    /\ val' = toLower(r)
    /\ op' = "toLower"
    /\ UNCHANGED <<builder, promoted, written, decVars, opsVars, hashVars, buildVars>>

Init ==
  /\ builder = FreshBuilder
  /\ val \in SeedValues
  /\ op = "none"
  /\ promoted = FALSE
  /\ written = <<>>
  /\ DecIdle
  /\ OpsIdle
  /\ HashIdle
  /\ BuildIdle

Next ==
  \/ NewBuilder
  \/ DoWriteString
  \/ DoWriteASCII
  \/ DoWriteRune
  \/ DoWriteSubstring
  \/ DoGrow
  \/ DoString
  \/ DoConcat
  \/ DoSubstring
  \/ DoToLower

Spec == Init /\ [][Next]_vars

\* Code points written in the round trip: 'a', U+00E9, a leading and a trailing
\* surrogate, and U+10000 (whose encoding is that leading and trailing surrogate).
RoundTripRunes == {97, 233, 55296, 56320, 65536}

\* WriteRune on a builder that gets nothing else; the code points are recorded.
RunesWriteRune ==
  \E r \in RoundTripRunes :
    /\ Len(written) < MaxRunes
    /\ builder' = valueStringBuilder_WriteRune(builder, r)
    /\ written' = Append(written, r)
    /\ Track("WriteRune")
    /\ UNCHANGED <<val, decVars, opsVars, hashVars, buildVars>>

\* A fresh builder written to by WriteRune only.
RunesInit ==
  /\ builder = FreshBuilder
  /\ val = stringEmpty
  /\ op = "none"
  /\ promoted = FALSE
  /\ written = <<>>
  /\ DecIdle
  /\ OpsIdle
  /\ HashIdle
  /\ BuildIdle

SpecRunes == RunesInit /\ [][RunesWriteRune]_vars

\* ------------------------------------------------------ one builder's calls
\* The builder with an empty history of grow calls, and without the history.
Logged(bb) ==
  [ascii |-> bb.ascii, buf |-> bb.buf, cap |-> bb.cap, unicode |-> bb.unicode,
   grown |-> <<>>]

Plain(bb) == [ascii |-> bb.ascii, buf |-> bb.buf, cap |-> bb.cap, unicode |-> bb.unicode]

\* The value String() returned as it reads now: through the builder's array
\* while it shares it, else as it was returned.
HeldValue ==
  IF ~held.shared THEN held.v
  ELSE IF held.v.tag = "unicode"
       THEN Unicode(SubSeq(builder.buf, 1, Len(held.v.buf)))
       ELSE Ascii(SubSeq(builder.ascii, 1, Len(held.v.buf)))

\* Operands of the builder's calls: a seed or the value String() returned.
BuildOperands == SeedValues \cup (IF held.set THEN {HeldValue} ELSE {})

\* A value String() returned shares the builder's backing array until the
\* builder takes another one: unicodeString(b.buf) until b.buf is reallocated
\* (the capacity changes with every reallocation), the string of asciiBuilder
\* at least until asciiBuilder is reset by the promotion.
StillShared(v, after) ==
  IF v.tag = "unicode" THEN after.cap = builder.cap ELSE ascii(after)

\* What a call leaves behind: b1 is the builder after it, with the grow calls
\* it made; piece the code units it was asked to write; args its arguments.
BuildStep(name, b1, piece, args) ==
  /\ builder' = Plain(b1)
  /\ pieces' = pieces \o piece
  /\ call' = [op |-> name, args |-> args, before |-> builder, grown |-> b1.grown]
  /\ held' = IF held.set
             THEN [held EXCEPT !.shared = held.shared /\ StillShared(held.v, Plain(b1))]
             ELSE held
  /\ Track(name)
  /\ UNCHANGED <<val, written, decVars, opsVars, hashVars>>

BuildNew ==
  /\ builder' = FreshBuilder
  /\ op' = "NewBuilder"
  /\ promoted' = FALSE
  /\ pieces' = <<>>
  /\ call' = [op |-> "none"]
  /\ held' = [set |-> FALSE]
  /\ UNCHANGED <<val, written, decVars, opsVars, hashVars>>

BuildWriteString ==
  \E s \in BuildOperands :
    /\ builderLen(builder) + length(s) <= MaxLen
    /\ BuildStep("WriteString", valueStringBuilder_WriteString(Logged(builder), s),
                 UnitsOf(s), <<s>>)

BuildWriteASCII ==
  \E s \in AsciiSeeds :
    /\ builderLen(builder) + Len(s) <= MaxLen
    /\ BuildStep("WriteASCII", WriteASCII(Logged(builder), s), s, <<s>>)

BuildWriteRune ==
  \E r \in Runes :
    /\ builderLen(builder) + Len(Utf16Of(r)) <= MaxLen
    /\ BuildStep("WriteRune", valueStringBuilder_WriteRune(Logged(builder), r),
                 Utf16Of(r), <<r>>)

BuildWriteSubstring ==
  \E source \in BuildOperands :
    \E start \in 0..length(source) :
      \E end \in start..length(source) :
        /\ builderLen(builder) + (end - start) <= MaxLen
        /\ BuildStep("WriteSubstring", WriteSubstring(Logged(builder), source, start, end),
                     Slice(UnitsOf(source), start, end), <<source, start, end>>)

BuildGrow ==
  \E n \in GrowHints :
    BuildStep("Grow", valueStringBuilder_Grow(Logged(builder), n), <<>>, <<n>>)

\* String(): the caller holds the value, which shares the builder's array.
BuildString ==
  /\ held' = [set |-> TRUE, v |-> valueStringBuilder_String(builder), shared |-> TRUE,
              n |-> Len(pieces)]
  /\ call' = [op |-> "String"]
  /\ op' = "String"
  /\ UNCHANGED <<builder, pieces, promoted, val, written, decVars, opsVars, hashVars>>

BuildInit ==
  /\ builder = FreshBuilder
  /\ val = stringEmpty
  /\ op = "none"
  /\ promoted = FALSE
  /\ written = <<>>
  /\ BuildIdle
  /\ DecIdle
  /\ OpsIdle
  /\ HashIdle

BuildNext ==
  \/ BuildNew
  \/ BuildWriteString
  \/ BuildWriteASCII
  \/ BuildWriteRune
  \/ BuildWriteSubstring
  \/ BuildGrow
  \/ BuildString

SpecBuild == BuildInit /\ [][BuildNext]_vars

\* ---------------------------------------------------- single value operations
\* Code units of the operands: 'a', 'b' and U+03C2.
OpUnits == {97, 98, 962}

\* The string values of logical length at most n over OpUnits: the compact ones
\* hold units below 0x80 only and the wide ones at least one unit from 0x80 on,
\* as every value the operations above produce does.
ValuesUpTo(n) ==
  {Ascii(u) : u \in {x \in SeqsOf(OpUnits, 0, n) : \A i \in 1..Len(x) : x[i] < RuneSelf}}
    \cup {Unicode(<<BOM>> \o u) :
            u \in {x \in SeqsOf(OpUnits, 1, n) : \E i \in 1..Len(x) : x[i] >= RuneSelf}}

OpsInit ==
  /\ recv \in {v \in ValuesUpTo(MaxRecv) : v.tag = "unicode"}
  /\ arg \in ValuesUpTo(MaxArg) \cup {recv}
  /\ ret = [op |-> "none"]
  /\ DecIdle
  /\ ValIdle
  /\ HashIdle
  /\ BuildIdle

\* recv.index(arg, k), for k from below 0 to beyond the length.
CallIndex ==
  \E k \in (0 - OutOfRange)..(length(recv) + OutOfRange) :
    /\ ret' = [op |-> "index", k |-> k, out |-> index(recv, arg, k)]
    /\ UNCHANGED <<recv, arg, decVars, valVars, hashVars, buildVars>>

\* recv.lastIndex(arg, k).
CallLastIndex ==
  \E k \in (0 - OutOfRange)..(length(recv) + OutOfRange) :
    /\ ret' = [op |-> "lastIndex", k |-> k, out |-> lastIndex(recv, arg, k)]
    /\ UNCHANGED <<recv, arg, decVars, valVars, hashVars, buildVars>>

\* recv.substring(start, end), within the bounds its callers guarantee.
CallSubstring ==
  \E start \in 0..length(recv) :
    \E end \in start..length(recv) :
      /\ ret' = [op |-> "substring", start |-> start, end |-> end,
                 out |-> substring(recv, start, end)]
      /\ UNCHANGED <<recv, arg, decVars, valVars, hashVars, buildVars>>

\* recv compared with other by SameAs, StrictEquals and Equals.
Compared(name, other) ==
  [op |-> name, other |-> other, same |-> SameAs(recv, other),
   strict |-> StrictEquals(recv, other), eq |-> Equals(recv, other)]

\* recv compared with arg.
CallEquals ==
  /\ ret' = Compared("equals", arg)
  /\ UNCHANGED <<recv, arg, decVars, valVars, hashVars, buildVars>>

\* recv compared with recv.substring(0, recv.length()).
CallSubstringEquals ==
  /\ ret' = Compared("substringEquals", substring(recv, 0, length(recv)))
  /\ UNCHANGED <<recv, arg, decVars, valVars, hashVars, buildVars>>

OpsNext ==
  \/ CallIndex
  \/ CallLastIndex
  \/ CallSubstring
  \/ CallEquals
  \/ CallSubstringEquals

SpecOps == OpsInit /\ [][OpsNext]_vars

\* ------------------------------------------- operations on any wide buffer
\* Code units of a wide buffer: 'a', U+03C2 and U+FEFF (the sentinel's value as
\* content).
WideUnits == {97, 962, 65279}

\* Every physical buffer made of the sentinel and up to n code units: the wide
\* values, the one without content and those with ASCII content only included.
WideUpTo(n) == {Unicode(<<BOM>> \o u) : u \in SeqsOf(WideUnits, 0, n)}

\* The compact values of up to n bytes over 'a' and 'b'.
CompactUpTo(n) == {Ascii(u) : u \in SeqsOf({97, 98}, 0, n)}

WideInit ==
  /\ recv \in WideUpTo(MaxRecv)
  /\ arg \in WideUpTo(MaxArg) \cup CompactUpTo(MaxArg) \cup {recv}
  /\ ret = [op |-> "none"]
  /\ DecIdle
  /\ ValIdle
  /\ HashIdle
  /\ BuildIdle

\* recv.concat(arg); the operands as they were at the call are kept.
CallConcat ==
  /\ ret' = [op |-> "concat", a |-> recv, b |-> arg, out |-> concat(recv, arg)]
  /\ UNCHANGED <<recv, arg, decVars, valVars, hashVars, buildVars>>

\* recv.ToBoolean().
CallToBoolean ==
  /\ ret' = [op |-> "ToBoolean", out |-> ToBoolean(recv)]
  /\ UNCHANGED <<recv, arg, decVars, valVars, hashVars, buildVars>>

WideNext == CallConcat \/ CallToBoolean

SpecWide == WideInit /\ [][WideNext]_vars

\* ------------------------------------------------------------------ hashing
\* Most hash calls made on one accumulator.
MaxHash == 4

\* Seeds of the accumulator.
HashSeeds == {1, 2}

\* The values hashed: U+03C2, 'a' U+03C2, and a leading surrogate on its own.
HashValues == {Unicode(<<BOM, 962>>), Unicode(<<BOM, 97, 962>>), Unicode(<<BOM, 55296>>)}

\* A new accumulator: nothing written.
HashInit ==
  /\ acc \in {[seed |-> sd, buf |-> <<>>] : sd \in HashSeeds}
  /\ hashed = <<>>
  /\ DecIdle
  /\ ValIdle
  /\ OpsIdle
  /\ BuildIdle

\* v.hash(acc), one call at a time; the value and the result are logged.
CallHash ==
  \E v \in HashValues :
    /\ Len(hashed) < MaxHash
    /\ acc' = hash(v, acc).acc
    /\ hashed' = Append(hashed, [v |-> v, out |-> hash(v, acc).out])
    /\ UNCHANGED <<decVars, valVars, opsVars, buildVars>>

SpecHash == HashInit /\ [][CallHash]_vars

\* ------------------------------------------------------------ lowercasing
\* Longest result of the default lowercaser.
MaxLower == 4

\* Code points of the lowercaser's results: 'a', alpha, beta, the combining
\* iota subscript U+0345 and the final sigma U+03C2.
SigmaRunes == {97, 945, 946, 837, 962}

\* The default lowercaser (golang.org/x/text/cases, outside the repository)
\* returned r for s.String(); r is not empty.
LowerInit ==
  /\ recv = [tag |-> "unicode", buf |-> <<BOM>>]
  /\ arg = [tag |-> "ascii", buf |-> <<>>]
  /\ ret \in {[op |-> "lowered", r |-> r] : r \in SeqsOf(SigmaRunes, 1, MaxLower)}
  /\ DecIdle
  /\ ValIdle
  /\ HashIdle
  /\ BuildIdle

\* s.toLower() from line 512 on, given r.
CallToLower ==
  /\ ret.op = "lowered"
  /\ ret' = [op |-> "toLower", r |-> ret.r, out |-> toLower(ret.r)]
  /\ UNCHANGED <<recv, arg, decVars, valVars, hashVars, buildVars>>

SpecLower == LowerInit /\ [][CallToLower]_vars

\* ------------------------------------------------------- claims: readers
\* The units accounted for by the code points of a log, in order.
RECURSIVE EmittedUnits(_)
EmittedUnits(out) ==
  IF out = <<>> THEN <<>>
  ELSE EmittedUnits(SubSeq(out, 1, Len(out) - 1))
         \o (IF out[Len(out)].err = "EOF" THEN <<>> ELSE Utf16Of(out[Len(out)].r))

IsSurrogate(c) == c >= surr1 /\ c < surr3

\* C2: the lenient decoder loses nothing.  The code points emitted so far encode
\* to a prefix of the input, no call fails, and once end of input is returned the
\* emitted code points encode to the whole input and no unit is left in the
\* lookahead.
C2_LenientLossless ==
  /\ \A i \in 1..Len(lenRd.out) : lenRd.out[i].err \in {"nil", "EOF"}
  /\ EmittedUnits(lenRd.out) \o (IF lenRd.prevSet THEN <<lenRd.prev>> ELSE <<>>)
       = SubSeq(rs, 1, lenRd.pos)
  /\ EOFs(lenRd.out) > 0 => (EmittedUnits(lenRd.out) = rs /\ ~lenRd.prevSet)

\* C2 witness: the decoder reached end of input on an input whose last unit is a
\* lone leading surrogate and in which a leading surrogate went through the lookahead.
C2_Witness ==
  /\ EOFs(lenRd.out) > 0
  /\ Len(rs) >= 2
  /\ isUTF16FirstSurrogate(rs[Len(rs)])
  /\ \E i \in 1..(Len(rs) - 1) :
        isUTF16FirstSurrogate(rs[i]) /\ ~isUTF16SecondSurrogate(rs[i + 1])

\* The unit at cursor p of s is a surrogate that starts no valid pair.
LoneSurrogateAt(s, p) ==
  /\ p < Len(s)
  /\ IsSurrogate(s[p + 1])
  /\ ~(/\ s[p + 1] < surr2
       /\ p + 1 < Len(s)
       /\ s[p + 2] >= surr2 /\ s[p + 2] < surr3)

\* C10: the strict reader's error contract.  Every logged call at cursor `at`
\* returned InvalidRune exactly on a lone surrogate (with the surrogate itself,
\* size 1), end of input exactly at the end, and otherwise the unit (size 1) or
\* the combined code point of the pair at the cursor (size 2).
C10_StrictContract ==
  \A i \in 1..Len(strictRd.out) :
    LET e == strictRd.out[i]
        p == e.at
    IN /\ (e.err = "InvalidRune") <=> LoneSurrogateAt(rs, p)
       /\ (e.err = "EOF") <=> (p >= Len(rs))
       /\ e.err = "InvalidRune" => (e.r = rs[p + 1] /\ e.size = 1)
       /\ e.err = "nil" =>
            \/ (e.size = 1 /\ e.r = rs[p + 1] /\ ~IsSurrogate(rs[p + 1]))
            \/ (/\ e.size = 2
                /\ p + 1 < Len(rs)
                /\ e.r = (rs[p + 1] - surr1) * 1024 + (rs[p + 2] - surr2) + surrSelf)

\* C10 witness: one run of the strict reader returned an error for a leading
\* surrogate before a non-trailing unit, an error for a trailing surrogate on
\* its own, and then end of input.
C10_Witness ==
  /\ \E i \in 1..Len(strictRd.out) :
        /\ strictRd.out[i].err = "InvalidRune"
        /\ isUTF16FirstSurrogate(strictRd.out[i].r)
        /\ strictRd.out[i].at + 1 < Len(rs)
  /\ \E i \in 1..Len(strictRd.out) :
        /\ strictRd.out[i].err = "InvalidRune"
        /\ isUTF16SecondSurrogate(strictRd.out[i].r)
  /\ EOFs(strictRd.out) > 0

\* The sizes of a log, added up.
RECURSIVE SizeSum(_)
SizeSum(out) ==
  IF out = <<>> THEN 0 ELSE out[Len(out)].size + SizeSum(SubSeq(out, 1, Len(out) - 1))

\* A cursor over n units whose log is out and which has accounted for `done`
\* units so far: a call at the end returned end of input with size 0, a call
\* before the end a result of size 1 or 2 that moved the cursor forward by its
\* size; so at most n results are no end of input, the sizes add up to the
\* units accounted for (to n once end of input was returned), and after an end
\* of input comes nothing else.
CursorTerminates(out, n, done) ==
  /\ \A i \in 1..Len(out) :
       /\ (out[i].err = "EOF") <=> (out[i].at >= n)
       /\ out[i].err = "EOF" => out[i].size = 0
       /\ out[i].err # "EOF" =>
            /\ out[i].size \in {1, 2}
            /\ out[i].size = (IF i < Len(out) THEN out[i + 1].at ELSE done) - out[i].at
       /\ out[i].err = "EOF" => \A j \in i..Len(out) : out[j].err = "EOF"
  /\ Len(out) - EOFs(out) <= n
  /\ SizeSum(out) = done
  /\ done <= n
  /\ EOFs(out) > 0 => SizeSum(out) = n

\* C19: each of the three cursors terminates and only moves forward.
C19_CursorsTerminate ==
  /\ CursorTerminates(rawRd.out, Len(rs), rawRd.pos)
  /\ CursorTerminates(strictRd.out, Len(rs), strictRd.pos)
  /\ CursorTerminates(lenRd.out, Len(rs), lenRd.pos - (IF lenRd.prevSet THEN 1 ELSE 0))

\* C19 witness: over three units with a lone surrogate and a pair, each cursor
\* returned end of input twice, the strict one after an error and a pair.
C19_Witness ==
  /\ Len(rs) = MaxUnits
  /\ EOFs(rawRd.out) >= 2
  /\ EOFs(lenRd.out) >= 2
  /\ EOFs(strictRd.out) >= 2
  /\ \E i \in 1..Len(strictRd.out) : strictRd.out[i].err = "InvalidRune"
  /\ \E i \in 1..Len(strictRd.out) : strictRd.out[i].size = 2
  /\ \E i \in 1..Len(lenRd.out) : lenRd.out[i].size = 2

\* C20: the strict reader and the lenient decoder agree result by result: the
\* k-th results are both end of input or neither, carry the same code point and
\* size, and the strict one is an error exactly when the code point is a
\* surrogate; so read to the end they give the same number of results.
C20_StrictAgreesWithLenient ==
  \A k \in 1..Min(Len(strictRd.out), Len(lenRd.out)) :
    /\ (strictRd.out[k].err = "EOF") <=> (lenRd.out[k].err = "EOF")
    /\ strictRd.out[k].r = lenRd.out[k].r
    /\ strictRd.out[k].size = lenRd.out[k].size
    /\ (strictRd.out[k].err = "InvalidRune") <=>
         (lenRd.out[k].err = "nil" /\ IsSurrogate(lenRd.out[k].r))
    /\ lenRd.out[k].err \in {"nil", "EOF"}

\* C20 witness: both read the same three units to the end, with a leading
\* surrogate before a unit that is no trailing surrogate.
C20_Witness ==
  /\ Len(rs) = MaxUnits
  /\ EOFs(strictRd.out) >= 1
  /\ EOFs(lenRd.out) >= 1
  /\ Len(strictRd.out) - EOFs(strictRd.out) = Len(lenRd.out) - EOFs(lenRd.out)
  /\ \E k \in 1..Len(strictRd.out) :
        /\ strictRd.out[k].err = "InvalidRune"
        /\ isUTF16FirstSurrogate(strictRd.out[k].r)
        /\ strictRd.out[k].at + 1 < Len(rs)
        /\ lenRd.out[k].r = strictRd.out[k].r

\* ------------------------------------------- claims: builder and values
\* The representation invariant of one value: compact exactly when every
\* logical code unit is below 0x80.
RepInv(v) ==
  /\ v.tag \in {"ascii", "unicode"}
  /\ v.tag = "unicode" => Len(v.buf) >= 1
  /\ (v.tag = "ascii") <=> (\A i \in 1..Len(UnitsOf(v)) : UnitsOf(v)[i] < RuneSelf)

\* C3: the representation invariant is closed under the operations.  The value
\* the caller holds (an input, or the result of concat, substring, toLower or
\* String()) and the value String() would return now for the builder both
\* satisfy it; so no wide value is empty.
C3_RepInvariantClosed ==
  /\ RepInv(val)
  /\ RepInv(valueStringBuilder_String(builder))

\* C3 witness: the builder has promoted and the caller holds a non-empty compact
\* value that substring cut out of a wide one.
C3_Witness ==
  /\ op = "substring"
  /\ val.tag = "ascii"
  /\ Len(val.buf) >= 1
  /\ promoted
  /\ valueStringBuilder_String(builder).tag = "unicode"

\* C4: promotion is monotonic.  Once ascii() has been false after a write to the
\* builder, it is false after every later write and String() returns a wide value.
C4_PromotionMonotonic ==
  promoted => (~ascii(builder) /\ valueStringBuilder_String(builder).tag = "unicode")

\* C4 witness: the last write to a promoted builder was WriteASCII and the wide
\* content ends in an ASCII unit behind a unit from 0x80 on.
C4_Witness ==
  /\ promoted
  /\ op = "WriteASCII"
  /\ Len(builder.buf) >= 3
  /\ builder.buf[Len(builder.buf)] < RuneSelf
  /\ builder.buf[Len(builder.buf) - 1] >= RuneSelf

\* The code points of a value as the lenient decoder reads them from
\* utf16Reader(0), call after call until end of input.
RECURSIVE lenientDecodeAll(_, _)
lenientDecodeAll(s, d) ==
  LET c == lenientReadRune(s, d)
  IN IF c.ret.err # "nil" THEN <<>> ELSE <<c.ret.r>> \o lenientDecodeAll(s, c.d)

\* A value decoded back to code points: a wide one by the lenient decoder, a
\* compact one byte for byte.
DecodeValue(v) ==
  IF v.tag = "unicode"
  THEN lenientDecodeAll(Slice(v.buf, 1, Len(v.buf)), [pos |-> 0, prev |-> 0, prevSet |-> FALSE])
  ELSE v.buf

\* The UTF-16 encoding of a sequence of code points.
RECURSIVE Utf16OfAll(_)
Utf16OfAll(S) == IF S = <<>> THEN <<>> ELSE Utf16Of(S[1]) \o Utf16OfAll(Tail(S))

\* No leading-surrogate code point of S is immediately followed by a
\* trailing-surrogate code point.
NoSplitPair(S) ==
  \A i \in 1..(Len(S) - 1) :
    ~(isUTF16FirstSurrogate(S[i]) /\ isUTF16SecondSurrogate(S[i + 1]))

\* C1 as stated: the code points written by WriteRune come back exactly, for
\* every sequence of code points.
C1_RoundTripExact ==
  DecodeValue(valueStringBuilder_String(builder)) = written

\* C1 amended: the decoded code points have the UTF-16 encoding of the written
\* ones, and they are the written ones whenever no leading-surrogate code point
\* was written immediately before a trailing-surrogate code point.
C1_RoundTripUpToPairs ==
  /\ Utf16OfAll(DecodeValue(valueStringBuilder_String(builder))) = Utf16OfAll(written)
  /\ NoSplitPair(written) =>
       DecodeValue(valueStringBuilder_String(builder)) = written

\* C1 witness: a lone surrogate and a code point above 0xFFFF were written, with
\* no split pair, and came back.
C1_Witness ==
  /\ \E i \in 1..Len(written) : IsSurrogate(written[i])
  /\ \E i \in 1..Len(written) : written[i] >= surrSelf
  /\ NoSplitPair(written)
  /\ DecodeValue(valueStringBuilder_String(builder)) = written

\* ---------------------------------------------- claims: single operations
\* The needle ss occurs in s1 at position p.
OccursAt(s1, ss, p) ==
  /\ p >= 0
  /\ p + Len(ss) <= Len(s1)
  /\ \A i \in 1..Len(ss) : s1[p + i] = ss[i]

SetMin(S) == CHOOSE x \in S : \A y \in S : x <= y

SetMax(S) == CHOOSE x \in S : \A y \in S : x >= y

\* The reference scan: the smallest position from k on where N occurs in S, or -1.
NaiveIndex(S, N, k) ==
  LET hits == {p \in 0..Len(UnitsOf(S)) : p >= k /\ OccursAt(UnitsOf(S), UnitsOf(N), p)}
  IN IF hits = {} THEN -1 ELSE SetMin(hits)

\* The reference scan: the largest position up to k where N occurs in S, or -1.
NaiveLastIndex(S, N, k) ==
  LET hits == {p \in 0..Len(UnitsOf(S)) : p <= k /\ OccursAt(UnitsOf(S), UnitsOf(N), p)}
  IN IF hits = {} THEN -1 ELSE SetMax(hits)

\* C5 as stated: index agrees with the reference scan for every integer k,
\* below 0 and beyond the length included.
C5_IndexAgreesForEveryK ==
  ret.op = "index" => ret.out = Returned(NaiveIndex(recv, arg, ret.k))

\* index agrees with the reference scan for every k from 0 on.
IndexAgreesFromZero ==
  (ret.op = "index" /\ ret.k >= 0) => ret.out = Returned(NaiveIndex(recv, arg, ret.k))

\* C6: lastIndex agrees with the reference scan for every integer k.
C6_LastIndexAgrees ==
  ret.op = "lastIndex" => ret.out = Returned(NaiveLastIndex(recv, arg, ret.k))

\* C6 witness: k lies beyond the last position at which the non-empty needle
\* fits, and the needle was found at that position.
C6_Witness ==
  /\ ret.op = "lastIndex"
  /\ length(arg) >= 1
  /\ length(arg) < length(recv)
  /\ ret.k > length(recv) - length(arg)
  /\ ret.out = Returned(length(recv) - length(arg))

\* C7: substring(start, end) has length end - start, its i-th unit is
\* charAt(start + i), and it is compact exactly when the range holds no unit
\* from 0x80 on, else wide with the sentinel first.
C7_SubstringContent ==
  ret.op = "substring" =>
    /\ length(ret.out) = ret.end - ret.start
    /\ \A i \in 0..(ret.end - ret.start - 1) :
         UnitsOf(ret.out)[i + 1] = charAt(recv, ret.start + i)
    /\ (ret.out.tag = "ascii") <=>
         (\A i \in ret.start..(ret.end - 1) : charAt(recv, i) < RuneSelf)
    /\ ret.out.tag = "unicode" =>
         (ret.out.buf[1] = BOM /\ Len(ret.out.buf) = ret.end - ret.start + 1)

\* C7 witness: an ASCII-only range of two units from position 1 on came out compact.
C7_Witness ==
  /\ ret.op = "substring"
  /\ ret.start >= 1
  /\ ret.end - ret.start >= 2
  /\ ret.out.tag = "ascii"
  /\ Len(ret.out.buf) = ret.end - ret.start

SameContent(A, B) ==
  /\ length(A) = length(B)
  /\ \A i \in 1..length(A) : UnitsOf(A)[i] = UnitsOf(B)[i]

C11_ConcatContent ==
  ret.op = "concat" =>
    /\ ret.out.tag = "unicode"
    /\ ret.out.buf[1] = BOM
    /\ Len(ret.out.buf) = length(ret.a) + length(ret.b) + 1
    /\ length(ret.out) = length(ret.a) + length(ret.b)
    /\ \A i \in 0..(length(ret.out) - 1) :
         charAt(ret.out, i) = IF i < length(ret.a)
                              THEN charAt(ret.a, i)
                              ELSE UnitsOf(ret.b)[i - length(ret.a) + 1]
    /\ recv = ret.a
    /\ arg = ret.b

\* C11 witness: a wide value of two or more units was concatenated with a wide
\* value of two or more units.
C11_Witness ==
  /\ ret.op = "concat"
  /\ length(ret.a) >= 2
  /\ ret.b.tag = "unicode"
  /\ length(ret.b) >= 2
  /\ length(ret.out) = length(ret.a) + length(ret.b)

\* C14 as stated: ToBoolean is true exactly when the logical length is above 0,
\* for every wide buffer, the one without content included.
C14_ToBooleanIsLengthPositive ==
  ret.op = "ToBoolean" => (ret.out <=> length(recv) > 0)

\* ToBoolean is true for every wide buffer with content.
ToBooleanOfContent ==
  (ret.op = "ToBoolean" /\ length(recv) > 0) => ret.out

\* ---------------------------------------------------------- claims: hashing
\* C12: the accumulator is reset when each hash call has returned, two calls on
\* the same value returned the same number whatever was hashed in between, and
\* each result is the one an accumulator with nothing written gives.
C12_HashResetAfterUse ==
  /\ acc.buf = <<>>
  /\ \A i \in 1..Len(hashed) : \A j \in 1..Len(hashed) :
       hashed[i].v = hashed[j].v => hashed[i].out = hashed[j].out
  /\ \A i \in 1..Len(hashed) :
       hashed[i].out = Sum64(hash_WriteString([seed |-> acc.seed, buf |-> <<>>],
                                              FromUtf16(hashed[i].v)))

\* C12 witness: a value was hashed, then another one with another result, then
\* the first one again.
C12_Witness ==
  /\ Len(hashed) >= 3
  /\ hashed[1].v = hashed[3].v
  /\ hashed[1].v # hashed[2].v
  /\ hashed[1].out # hashed[2].out
  /\ hashed[1].out = hashed[3].out

\* ------------------------------------------------------ claims: lowercasing
\* The final-sigma correction of r, position by position: U+03C2 becomes U+03C3
\* when it follows U+0345 and that U+0345 is first or follows no alpha.
Corrected(r) ==
  [j \in 1..Len(r) |->
     IF r[j] = 962 /\ j >= 2 /\ r[j - 1] = 837 /\ (j = 2 \/ r[j - 2] # 945)
     THEN 963
     ELSE r[j]]

\* C13: toLower returns the corrected code points, no other code point changed,
\* as a compact value exactly when each of them is below 0x80, else as a wide
\* value behind the sentinel.
C13_FinalSigma ==
  ret.op = "toLower" =>
    /\ UnitsOf(ret.out) = Utf16OfAll(Corrected(ret.r))
    /\ (ret.out.tag = "ascii") <=>
         (\A j \in 1..Len(ret.r) : Corrected(ret.r)[j] < RuneSelf)
    /\ ret.out.tag = "unicode" => ret.out.buf[1] = BOM

\* C13 witness: beta, U+0345, final sigma came back with the sigma rewritten.
C13_Witness ==
  /\ ret.op = "toLower"
  /\ ret.r = <<946, 837, 962>>
  /\ ret.out = Unicode(<<BOM, 946, 837, 963>>)

\* toLower left alpha, U+0345, final sigma as it was.
AlphaKeepsFinalSigma ==
  (ret.op = "toLower" /\ ret.r = <<945, 837, 962>>) =>
    ret.out = Unicode(<<BOM, 945, 837, 962>>)

\* ------------------------------------------------ claims: one builder's calls
\* C15: the value String() would return holds the code units of the pieces
\* written, in order and nothing else, behind one sentinel when it is wide;
\* Grow adds nothing and the promotion loses nothing.
C15_BuilderContent ==
  /\ UnitsOf(valueStringBuilder_String(builder)) = pieces
  /\ valueStringBuilder_String(builder).tag = "unicode" =>
       /\ valueStringBuilder_String(builder).buf[1] = BOM
       /\ Len(valueStringBuilder_String(builder).buf) = Len(pieces) + 1
  /\ ascii(builder) => builder.ascii = pieces

\* C15 witness: a builder holding a byte was promoted by the last call, a
\* WriteRune, and holds the byte and the new unit behind the sentinel.
C15_Witness ==
  /\ call.op = "WriteRune"
  /\ ascii(call.before)
  /\ Len(call.before.ascii) >= 1
  /\ ~ascii(builder)
  /\ builder.buf = <<BOM>> \o call.before.ascii \o Utf16Of(call.args[1])

\* C16: WriteSubstring with a wide source on a compact builder leaves it compact,
\* the range appended as bytes, exactly when no unit of the range is 0x80 or
\* above, and else promotes it, the wide buffer being the sentinel, the bytes
\* held and the slice; with a compact source the mode is kept; on a promoted
\* builder the slice is appended to the wide buffer.
C16_WriteSubstringPromotion ==
  call.op = "WriteSubstring" =>
    LET source == call.args[1]
        range == Slice(UnitsOf(call.args[1]), call.args[2], call.args[3])
        before == call.before
        wide == \E i \in 1..Len(range) : range[i] >= RuneSelf
    IN /\ (source.tag = "unicode" /\ ascii(before)) =>
            /\ ascii(builder) <=> ~wide
            /\ ~wide => builder = [before EXCEPT !.ascii = before.ascii \o range]
            /\ wide => /\ builder.ascii = <<>>
                       /\ builder.buf = <<BOM>> \o before.ascii \o range
                       /\ builder.unicode
       /\ source.tag = "ascii" =>
            /\ ascii(builder) <=> ascii(before)
            /\ ascii(before) => builder = [before EXCEPT !.ascii = before.ascii \o range]
       /\ ~ascii(before) =>
            /\ ~ascii(builder)
            /\ builder.ascii = <<>>
            /\ builder.buf = before.buf \o range

\* C16 witness: the ASCII unit before a unit from 0x80 on was written from a wide
\* source to a compact builder holding a byte, which stayed compact.
C16_Witness ==
  /\ call.op = "WriteSubstring"
  /\ call.args[1] = Unicode(<<BOM, 97, 962>>)
  /\ call.args[2] = 0
  /\ call.args[3] = 1
  /\ Len(call.before.ascii) >= 1
  /\ ascii(builder)
  /\ Len(builder.ascii) = Len(call.before.ascii) + 1

\* C17 as stated: a grow call that reallocates leaves the capacity
\* max(2 x capacity, length + n), the units as they were and room for n.
C17_GrowsToMax ==
  call.op \in {"WriteString", "WriteASCII", "WriteRune", "WriteSubstring", "Grow"} =>
    \A i \in 1..Len(call.grown) :
      LET g == call.grown[i]
      IN g.cap - Len(g.buf) < g.n =>
           /\ g.newCap = Max(2 * g.cap, Len(g.buf) + g.n)
           /\ g.newBuf = g.buf
           /\ g.newCap - Len(g.newBuf) >= g.n

\* C17 amended: a grow call that reallocates leaves the capacity
\* 2 x capacity + n, which is at least max(2 x capacity, length + n), the
\* units as they were and room for n; one that finds room changes nothing.
C17_GrowsToDoublePlusRequest ==
  call.op \in {"WriteString", "WriteASCII", "WriteRune", "WriteSubstring", "Grow"} =>
    \A i \in 1..Len(call.grown) :
      LET g == call.grown[i]
      IN /\ g.cap - Len(g.buf) < g.n =>
              /\ g.newCap = 2 * g.cap + g.n
              /\ g.newCap >= Max(2 * g.cap, Len(g.buf) + g.n)
              /\ g.newBuf = g.buf
              /\ g.newCap - Len(g.newBuf) >= g.n
         /\ g.cap - Len(g.buf) >= g.n => (g.newCap = g.cap /\ g.newBuf = g.buf)

\* C17 witness: a write made grow reallocate a buffer that had units and
\* capacity.
C17_Witness ==
  /\ call.op \in {"WriteString", "WriteASCII", "WriteRune", "WriteSubstring"}
  /\ \E i \in 1..Len(call.grown) :
        /\ call.grown[i].cap > 0
        /\ Len(call.grown[i].buf) >= 2
        /\ call.grown[i].newCap > call.grown[i].cap

\* C18: the value String() returned has the length and the units it had when
\* it was returned, read through the array it shares with the builder, and
\* String() now returns its units followed by the pieces written since.
C18_HeldValueImmutable ==
  held.set =>
    /\ length(HeldValue) = length(held.v)
    /\ HeldValue = held.v
    /\ UnitsOf(valueStringBuilder_String(builder))
         = UnitsOf(held.v) \o SubSeq(pieces, held.n + 1, Len(pieces))

\* C18 witness: a wide value was returned and a later write stored a unit in the
\* array the value still shares with the builder.
C18_Witness ==
  /\ held.set
  /\ held.shared
  /\ held.v.tag = "unicode"
  /\ call.op \in {"WriteString", "WriteASCII", "WriteRune", "WriteSubstring"}
  /\ Len(pieces) > held.n
  /\ Len(builder.buf) > Len(held.v.buf)

====
